---- MODULE Spec2Model ----
(***************************************************************************)
(* Order / inventory consistency of the POS backend                        *)
(* (src/backend/controllers/orderController.js, lines 1-332).              *)
(*                                                                         *)
(* The tables inventory, orders and orderitems are the committed state of  *)
(* the PostgreSQL store.  Each request handler (createOrder,               *)
(* markOrderItemComplete) runs on its own pooled connection as one         *)
(* READ COMMITTED transaction, one SQL statement per step: a statement     *)
(* reads the committed rows plus the transaction's own pending writes, an  *)
(* UPDATE waits while another transaction holds a pending write on the     *)
(* same row, advisory locks are held until COMMIT / ROLLBACK, and COMMIT   *)
(* installs the pending writes atomically.                                 *)
(***************************************************************************)
EXTENDS Integers, Sequences, FiniteSets, TLC

\* ---------------------------------------------------------------- bounds
MaxOrders == 2       \* order rows (committed or pending) the model creates
MaxItems == 2        \* length of a request's orderItems array
MaxLines == 3        \* orderitems rows (committed or pending) the model creates
MaxFairMarks == 2    \* markOrderItemComplete requests of the fair specification
MaxMarks == 3        \* markOrderItemComplete requests the model issues

\* ------------------------------------------------------- fixed collaborators
Conn == {1, 2}                       \* pooled connections (concurrent requests)
Ingredients == {1, 2}                \* inventory.ingredientid: 1 Boba, 2 Milk
MenuItemIds == {1, 2, 3}
Quantities == {10}

InitialCount == <<100, 30>>          \* inventory.ingredientcount at start

\* menuitemingredients rows of a menu item, in the order the SELECT returns them
Recipe(m) ==
  CASE m = 1 -> << [ingredientid |-> 1, ingredientqty |-> 5] >>
    [] m = 2 -> << [ingredientid |-> 1, ingredientqty |-> 6],
                   [ingredientid |-> 2, ingredientqty |-> 1] >>
    [] m = 3 -> << [ingredientid |-> 2, ingredientqty |-> 5],
                   [ingredientid |-> 1, ingredientqty |-> 1] >>
    [] OTHER -> << >>

\* quantity-per-unit of ingredient i in the recipe of menu item m
RecipeQty(m, i) ==
  LET ks == { k \in 1..Len(Recipe(m)) : Recipe(m)[k].ingredientid = i }
  IN IF ks = {} THEN 0 ELSE Recipe(m)[CHOOSE k \in ks : TRUE].ingredientqty

\* what one order line consumes of ingredient i
Need(line, i) == RecipeQty(line.menuitemid, i) * line.quantity

RECURSIVE SumNeed(_, _)
SumNeed(lines, i) ==
  IF lines = {} THEN 0
  ELSE LET r == CHOOSE x \in lines : TRUE
       IN Need(r, i) + SumNeed(lines \ {r}, i)

\* what a whole request consumes of ingredient i
RECURSIVE TotalRequired(_, _)
TotalRequired(items, i) ==
  IF Len(items) = 0 THEN 0
  ELSE Need(Head(items), i) + TotalRequired(Tail(items), i)

\* request bodies
OrderItem == [menuitemid : MenuItemIds, quantity : Quantities]
OrderItemsInputs == UNION { [1..n -> OrderItem] : n \in 0..MaxItems }
\* req.body of POST /orders: orderItems may be missing, or something that is
\* not an array (a string, an object)
CreateBodies ==
  { [given |-> TRUE, isArray |-> TRUE, orderItems |-> s] : s \in OrderItemsInputs }
    \cup { [given |-> FALSE, isArray |-> FALSE, orderItems |-> << >>],
           [given |-> TRUE, isArray |-> FALSE, orderItems |-> << >>] }
\* menu item ids a client can send that no menu item and no recipe row carries
UnlistedMenuItemIds == {4}

\* request bodies whose items may name an unlisted menu item
MenuBodies ==
  { [given |-> TRUE, isArray |-> TRUE, orderItems |-> s] :
      s \in UNION { [1..n -> [menuitemid : MenuItemIds \cup UnlistedMenuItemIds,
                              quantity : Quantities]] : n \in 1..MaxItems } }

\* req.body.isComplete of PATCH /orders/items/:id/complete, as JSON text
IsCompleteInputs == {"true", "false", "undefined"}

\* ------------------------------------------------------------------ state
VARIABLES
  inventory,    \* committed inventory: ingredientid -> ingredientcount
  orders,       \* committed orders rows [orderid, is_complete]
  orderitems,   \* committed orderitems rows
  pc,           \* per connection: the statement its handler executes next
  loc,          \* per connection: the handler's local variables
  pend,         \* per connection: uncommitted writes of its transaction
  advisory,     \* per connection: advisory lock keys it holds
  resp,         \* per connection: the last response sent
  nMarks,       \* markOrderItemComplete requests issued so far
  prevMark,     \* the last committed markOrderItemComplete and its pre-state
  issued,       \* the greatest order id a createOrder has read so far
  inTx          \* per connection: BEGIN was sent and no COMMIT / ROLLBACK since

vars == <<inventory, orders, orderitems, pc, loc, pend, advisory, resp, nMarks, prevMark,
          issued, inTx>>

NoRow == [orderitemid |-> 0, orderid |-> 0, menuitemid |-> 0, quantity |-> 0,
          is_complete |-> FALSE]

NoLoc == [kind |-> "none", orderItems |-> << >>, idx |-> 0, orderId |-> 0,
          itemId |-> 0, orderItem |-> NoRow, wasComplete |-> FALSE,
          willBeComplete |-> FALSE, rows |-> << >>, allComplete |-> FALSE,
          isComplete |-> ""]

EmptyFn == [x \in {} |-> 0]

NoPend == [orders |-> {}, items |-> {}, lineFlag |-> EmptyFn,
           inv |-> EmptyFn, orderFlag |-> EmptyFn]

NoResp == [status |-> 0, error |-> "", ingredientid |-> 0]
NoPrev == [orderItemId |-> 0, willBeComplete |-> FALSE, wasComplete |-> FALSE,
           inventory |-> [i \in Ingredients |-> InitialCount[i]], orderFlag |-> FALSE]

Init ==
  /\ inventory = [i \in Ingredients |-> InitialCount[i]]
  /\ orders = {}
  /\ orderitems = {}
  /\ pc = [t \in Conn |-> "idle"]
  /\ loc = [t \in Conn |-> NoLoc]
  /\ pend = [t \in Conn |-> NoPend]
  /\ advisory = [t \in Conn |-> {}]
  /\ resp = [t \in Conn |-> NoResp]
  /\ nMarks = 0
  /\ prevMark = NoPrev
  /\ issued = 0
  /\ inTx = [t \in Conn |-> FALSE]

\* ------------------------------------------------- what a statement reads
\* A statement of connection t sees the committed rows and t's own pending
\* writes (READ COMMITTED).
ItemsSeenBy(t) ==
  { IF r.orderitemid \in DOMAIN pend[t].lineFlag
      THEN [r EXCEPT !.is_complete = pend[t].lineFlag[r.orderitemid]]
      ELSE r : r \in orderitems } \cup pend[t].items

OrdersSeenBy(t) ==
  { IF o.orderid \in DOMAIN pend[t].orderFlag
      THEN [o EXCEPT !.is_complete = pend[t].orderFlag[o.orderid]]
      ELSE o : o \in orders } \cup pend[t].orders

CountSeenBy(t, i) ==
  IF i \in DOMAIN pend[t].inv THEN pend[t].inv[i] ELSE inventory[i]

MaxOf(S) == IF S = {} THEN 0 ELSE CHOOSE x \in S : \A y \in S : y <= x

\* COALESCE(MAX(id), 0) + 1
NextId(S) == MaxOf(S) + 1

\* pool.connect(): the handler runs on the first idle connection
Acquire(t) == pc[t] = "idle" /\ \A u \in Conn : u < t => pc[u] # "idle"

\* row locks: a pending UPDATE of another transaction on the same row
ItemRowFree(t, id) == \A u \in Conn \ {t} : id \notin DOMAIN pend[u].lineFlag
InventoryRowFree(t, i) == \A u \in Conn \ {t} : i \notin DOMAIN pend[u].inv
OrderRowFree(t, id) == \A u \in Conn \ {t} : id \notin DOMAIN pend[u].orderFlag
\* the advisory lock is not exclusive
AdvisoryFree_NotExclusive(t, k) == TRUE

\* pg_advisory_xact_lock(k) returns once no other transaction holds key k
AdvisoryFree(t, k) == \A u \in Conn \ {t} : k \notin advisory[u]

\* ------------------------------------------------------ COMMIT / ROLLBACK
InventoryAfterCommit(t) ==
  [i \in Ingredients |-> CountSeenBy(t, i)]
OrdersAfterCommit(t) == OrdersSeenBy(t)
ItemsAfterCommit(t) == ItemsSeenBy(t)

\* the advisory locks are session-level (pg_advisory_lock) and outlive the
\* transaction
EndTransaction_KeepsAdvisory(t) ==
  /\ pend' = [pend EXCEPT ![t] = NoPend]
  /\ advisory' = advisory
  /\ pc' = [pc EXCEPT ![t] = "idle"]
  /\ inTx' = [inTx EXCEPT ![t] = FALSE]

\* ROLLBACK, or the end of a transaction: pending writes and locks are dropped
EndTransaction(t) ==
  /\ pend' = [pend EXCEPT ![t] = NoPend]
  /\ advisory' = [advisory EXCEPT ![t] = {}]
  /\ pc' = [pc EXCEPT ![t] = "idle"]
  /\ inTx' = [inTx EXCEPT ![t] = FALSE]

Respond(t, status, error, ing) ==
  resp' = [resp EXCEPT ![t] = [status |-> status, error |-> error, ingredientid |-> ing]]

\* --------------------------------------------------------------- createOrder
\* if (!orderItems || !Array.isArray(orderItems) || orderItems.length === 0)
HasNoItems(body) == ~body.given \/ ~body.isArray \/ Len(body.orderItems) = 0

\* the request bodies that fail this test
EmptyBodies == { body \in CreateBodies : HasNoItems(body) }

\* rows of the availability SELECT for one requested item
CheckRows(t, item) ==
  [k \in 1..Len(Recipe(item.menuitemid)) |->
     [ingredientid |-> Recipe(item.menuitemid)[k].ingredientid,
      ingredientcount |-> CountSeenBy(t, Recipe(item.menuitemid)[k].ingredientid),
      ingredientqty |-> Recipe(item.menuitemid)[k].ingredientqty]]

\* an exactly sufficient stock is refused as well
Insufficient_NotStrict(row, item) == row.ingredientcount <= row.ingredientqty * item.quantity

\* if (available < totalRequired)
Insufficient(row, item) == row.ingredientcount < row.ingredientqty * item.quantity

\* index of the first row that fails the check, 0 when none does
FirstShort(rows, item) ==
  LET bad == { k \in 1..Len(rows) : Insufficient(rows[k], item) }
  IN IF bad = {} THEN 0 ELSE CHOOSE k \in bad : \A j \in bad : k <= j

ActiveCreates == { u \in Conn : pc[u] # "idle" /\ loc[u].kind = "create" }

RECURSIVE SumLen(_)
SumLen(S) ==
  IF S = {} THEN 0
  ELSE LET u == CHOOSE x \in S : TRUE
       IN Len(loc[u].orderItems) + SumLen(S \ {u})

\* the model stops issuing requests that would exceed its bounds
WithinBounds(body) ==
  /\ Cardinality(orders) + Cardinality(ActiveCreates) < MaxOrders
  /\ Cardinality(orderitems) + SumLen(ActiveCreates) + Len(body.orderItems) <= MaxLines

\* the validation runs after the order-id lock has been taken
BeginCreate_ValidatesAfterLock(t, body) ==
  /\ Acquire(t)
  /\ WithinBounds(body)
  /\ inTx' = [inTx EXCEPT ![t] = TRUE]
  /\ IF HasNoItems(body)
       THEN /\ AdvisoryFree(t, 1)
            /\ advisory' = [advisory EXCEPT ![t] = @ \cup {1}]
            /\ Respond(t, 400, "Order must contain at least one item", 0)
            /\ loc' = [loc EXCEPT ![t] = NoLoc]
            /\ pc' = pc
       ELSE /\ loc' = [loc EXCEPT ![t] =
                 [NoLoc EXCEPT !.kind = "create", !.orderItems = body.orderItems, !.idx = 1]]
            /\ pc' = [pc EXCEPT ![t] = "validate"]
            /\ resp' = [resp EXCEPT ![t] = NoResp]
            /\ advisory' = advisory
  /\ UNCHANGED <<inventory, orders, orderitems, pend, nMarks, prevMark, issued>>

BeginCreate(t, body) ==
  /\ Acquire(t)
  /\ WithinBounds(body)
  /\ inTx' = [inTx EXCEPT ![t] = TRUE]
  /\ IF HasNoItems(body)
       THEN /\ Respond(t, 400, "Order must contain at least one item", 0)
            /\ loc' = [loc EXCEPT ![t] = NoLoc]
            /\ pc' = pc
       ELSE /\ loc' = [loc EXCEPT ![t] =
                 [NoLoc EXCEPT !.kind = "create", !.orderItems = body.orderItems, !.idx = 1]]
            /\ pc' = [pc EXCEPT ![t] = "validate"]
            /\ resp' = [resp EXCEPT ![t] = NoResp]
  /\ UNCHANGED <<inventory, orders, orderitems, pend, advisory, nMarks, prevMark, issued>>

\* the check answers 400 but the handler does not return
CreateValidate_NoReturn(t) ==
  /\ pc[t] = "validate"
  /\ LET item == loc[t].orderItems[loc[t].idx]
         rows == CheckRows(t, item)
         k == FirstShort(rows, item)
     IN IF k # 0
          THEN Respond(t, 400, "Insufficient inventory", rows[k].ingredientid)
          ELSE resp' = resp
  /\ IF loc[t].idx < Len(loc[t].orderItems)
       THEN /\ loc' = [loc EXCEPT ![t].idx = @ + 1]
            /\ pc' = pc
       ELSE /\ loc' = loc
            /\ pc' = [pc EXCEPT ![t] = "lock1"]
  /\ UNCHANGED <<inventory, orders, orderitems, pend, advisory, nMarks, prevMark, issued, inTx>>

CreateValidate(t) ==
  /\ pc[t] = "validate"
  /\ LET item == loc[t].orderItems[loc[t].idx]
         rows == CheckRows(t, item)
         k == FirstShort(rows, item)
     IN IF k # 0
          THEN /\ EndTransaction(t)
               /\ Respond(t, 400, "Insufficient inventory", rows[k].ingredientid)
               /\ loc' = loc
          ELSE /\ IF loc[t].idx < Len(loc[t].orderItems)
                    THEN /\ loc' = [loc EXCEPT ![t].idx = @ + 1]
                         /\ pc' = pc
                    ELSE /\ loc' = loc
                         /\ pc' = [pc EXCEPT ![t] = "lock1"]
               /\ UNCHANGED <<pend, advisory, resp, inTx>>
  /\ UNCHANGED <<inventory, orders, orderitems, nMarks, prevMark, issued>>

\* the handler takes the line-id lock (key 2) first
CreateLock1_Key2First(t) ==
  /\ pc[t] = "lock1"
  /\ AdvisoryFree(t, 2)
  /\ advisory' = [advisory EXCEPT ![t] = @ \cup {2}]
  /\ pc' = [pc EXCEPT ![t] = "readOrderId"]
  /\ UNCHANGED <<inventory, orders, orderitems, loc, pend, resp, nMarks, prevMark, issued, inTx>>

CreateLock1(t) ==
  /\ pc[t] = "lock1"
  /\ AdvisoryFree(t, 1)
  /\ advisory' = [advisory EXCEPT ![t] = @ \cup {1}]
  /\ pc' = [pc EXCEPT ![t] = "readOrderId"]
  /\ UNCHANGED <<inventory, orders, orderitems, loc, pend, resp, nMarks, prevMark, issued, inTx>>

CreateReadOrderId(t) ==
  /\ pc[t] = "readOrderId"
  /\ LET orderId == NextId({ o.orderid : o \in OrdersSeenBy(t) })
     IN /\ loc' = [loc EXCEPT ![t].orderId = orderId]
        /\ issued' = IF orderId > issued THEN orderId ELSE issued
  /\ pc' = [pc EXCEPT ![t] = "insertOrder"]
  /\ UNCHANGED <<inventory, orders, orderitems, pend, advisory, resp, nMarks, prevMark, inTx>>

\* the order row is inserted outside the transaction (pool.query)
CreateInsertOrder_Autocommit(t) ==
  /\ pc[t] = "insertOrder"
  /\ orders' = orders \cup { [orderid |-> loc[t].orderId, is_complete |-> FALSE] }
  /\ pc' = [pc EXCEPT ![t] = "lock2"]
  /\ UNCHANGED <<inventory, orderitems, loc, pend, advisory, resp, nMarks, prevMark, issued, inTx>>

CreateInsertOrder(t) ==
  /\ pc[t] = "insertOrder"
  /\ pend' = [pend EXCEPT ![t].orders =
                @ \cup { [orderid |-> loc[t].orderId, is_complete |-> FALSE] }]
  /\ pc' = [pc EXCEPT ![t] = "lock2"]
  /\ UNCHANGED <<inventory, orders, orderitems, loc, advisory, resp, nMarks, prevMark, issued, inTx>>

CreateLock2(t) ==
  /\ pc[t] = "lock2"
  /\ AdvisoryFree(t, 2)
  /\ advisory' = [advisory EXCEPT ![t] = @ \cup {2}]
  /\ loc' = [loc EXCEPT ![t].idx = 1]
  /\ pc' = [pc EXCEPT ![t] = "readItemId"]
  /\ UNCHANGED <<inventory, orders, orderitems, pend, resp, nMarks, prevMark, issued, inTx>>

\* the MAX(orderitemid) read runs outside the transaction (pool.query) and
\* does not see the lines this transaction has inserted
CreateReadItemId_CommittedOnly(t) ==
  /\ pc[t] = "readItemId"
  /\ loc' = [loc EXCEPT ![t].itemId = NextId({ r.orderitemid : r \in orderitems })]
  /\ pc' = [pc EXCEPT ![t] = "insertItem"]
  /\ UNCHANGED <<inventory, orders, orderitems, pend, advisory, resp, nMarks, prevMark, issued, inTx>>

CreateReadItemId(t) ==
  /\ pc[t] = "readItemId"
  /\ loc' = [loc EXCEPT ![t].itemId = NextId({ r.orderitemid : r \in ItemsSeenBy(t) })]
  /\ pc' = [pc EXCEPT ![t] = "insertItem"]
  /\ UNCHANGED <<inventory, orders, orderitems, pend, advisory, resp, nMarks, prevMark, issued, inTx>>

CreateInsertItem(t) ==
  /\ pc[t] = "insertItem"
  /\ LET item == loc[t].orderItems[loc[t].idx]
     IN pend' = [pend EXCEPT ![t].items = @ \cup
                   { [orderitemid |-> loc[t].itemId, orderid |-> loc[t].orderId,
                      menuitemid |-> item.menuitemid, quantity |-> item.quantity,
                      is_complete |-> FALSE] }]
  /\ IF loc[t].idx < Len(loc[t].orderItems)
       THEN /\ loc' = [loc EXCEPT ![t].idx = @ + 1]
            /\ pc' = [pc EXCEPT ![t] = "readItemId"]
       ELSE /\ loc' = loc
            /\ pc' = [pc EXCEPT ![t] = "commitCreate"]
  /\ UNCHANGED <<inventory, orders, orderitems, advisory, resp, nMarks, prevMark, issued, inTx>>

\* the inventory is debited when the order is created
CreateCommit_DebitsAtCreation(t) ==
  /\ pc[t] = "commitCreate"
  /\ inventory' = [i \in Ingredients |->
                     CountSeenBy(t, i) - TotalRequired(loc[t].orderItems, i)]
  /\ orders' = OrdersAfterCommit(t)
  /\ orderitems' = ItemsAfterCommit(t)
  /\ EndTransaction(t)
  /\ Respond(t, 201, "", 0)
  /\ loc' = [loc EXCEPT ![t] = NoLoc]
  /\ UNCHANGED <<nMarks, prevMark, issued>>

\* the transaction also closes every earlier order before it commits
CreateCommit_ClosesEarlierOrders(t) ==
  /\ pc[t] = "commitCreate"
  /\ inventory' = InventoryAfterCommit(t)
  /\ orders' = { IF o.orderid < loc[t].orderId
                   THEN [o EXCEPT !.is_complete = TRUE]
                   ELSE o : o \in OrdersAfterCommit(t) }
  /\ orderitems' = ItemsAfterCommit(t)
  /\ EndTransaction(t)
  /\ Respond(t, 201, "", 0)
  /\ loc' = [loc EXCEPT ![t] = NoLoc]
  /\ UNCHANGED <<nMarks, prevMark, issued>>

CreateCommit(t) ==
  /\ pc[t] = "commitCreate"
  /\ inventory' = InventoryAfterCommit(t)
  /\ orders' = OrdersAfterCommit(t)
  /\ orderitems' = ItemsAfterCommit(t)
  /\ EndTransaction(t)
  /\ Respond(t, 201, "", 0)
  /\ loc' = [loc EXCEPT ![t] = NoLoc]
  /\ UNCHANGED <<nMarks, prevMark, issued>>

\* ----------------------------------------------------- markOrderItemComplete
\* the flag is the truthiness of the body's value: an omitted isComplete
\* means false
WillBeComplete_Truthy(isComplete) == isComplete = "true"

\* const willBeComplete = isComplete !== false
WillBeComplete(isComplete) == isComplete # "false"

Debits_WheneverComplete(wasComplete, willBeComplete) == willBeComplete

\* if (willBeComplete && !wasComplete)
Debits(wasComplete, willBeComplete) == willBeComplete /\ ~wasComplete

Credits_Never(wasComplete, willBeComplete) == FALSE

\* else if (!willBeComplete && wasComplete)
Credits(wasComplete, willBeComplete) == ~willBeComplete /\ wasComplete

TotalNeeded_PerUnit(row, orderItem) == row.ingredientqty

\* row.ingredientqty * orderItem.quantity
TotalNeeded(row, orderItem) == row.ingredientqty * orderItem.quantity

NewOrderFlag_AnyComplete(total, completed) == completed > 0

\* parseInt(completed) === parseInt(total)
NewOrderFlag(total, completed) == completed = total

OrderItemIdInputs ==
  { r.orderitemid : r \in orderitems } \cup { NextId({ r.orderitemid : r \in orderitems }) }

\* the not-found branch answers 404 without sending ROLLBACK
BeginMark_NotFoundNoRollback(t, orderItemId, isComplete) ==
  /\ Acquire(t)
  /\ nMarks < MaxMarks
  /\ nMarks' = nMarks + 1
  /\ inTx' = [inTx EXCEPT ![t] = TRUE]
  /\ LET found == { r \in ItemsSeenBy(t) : r.orderitemid = orderItemId }
     IN IF found = {}
          THEN /\ Respond(t, 404, "Order item not found", 0)
               /\ loc' = [loc EXCEPT ![t] = NoLoc]
               /\ pc' = pc
          ELSE /\ LET orderItem == CHOOSE r \in found : TRUE
                  IN loc' = [loc EXCEPT ![t] =
                       [NoLoc EXCEPT !.kind = "mark", !.orderItem = orderItem,
                                     !.orderId = orderItem.orderid,
                                     !.wasComplete = orderItem.is_complete,
                                     !.willBeComplete = WillBeComplete(isComplete),
                                     !.isComplete = isComplete]]
               /\ pc' = [pc EXCEPT ![t] = "updateItem"]
               /\ resp' = [resp EXCEPT ![t] = NoResp]
  /\ UNCHANGED <<inventory, orders, orderitems, pend, advisory, prevMark, issued>>

BeginMark(t, orderItemId, isComplete) ==
  /\ Acquire(t)
  /\ nMarks < MaxMarks
  /\ nMarks' = nMarks + 1
  /\ LET found == { r \in ItemsSeenBy(t) : r.orderitemid = orderItemId }
     IN IF found = {}
          THEN /\ EndTransaction(t)
               /\ Respond(t, 404, "Order item not found", 0)
               /\ loc' = [loc EXCEPT ![t] = NoLoc]
          ELSE /\ LET orderItem == CHOOSE r \in found : TRUE
                  IN loc' = [loc EXCEPT ![t] =
                       [NoLoc EXCEPT !.kind = "mark", !.orderItem = orderItem,
                                     !.orderId = orderItem.orderid,
                                     !.wasComplete = orderItem.is_complete,
                                     !.willBeComplete = WillBeComplete(isComplete),
                                     !.isComplete = isComplete]]
               /\ pc' = [pc EXCEPT ![t] = "updateItem"]
               /\ resp' = [resp EXCEPT ![t] = NoResp]
               /\ inTx' = [inTx EXCEPT ![t] = TRUE]
               /\ UNCHANGED <<pend, advisory>>
  /\ UNCHANGED <<inventory, orders, orderitems, prevMark, issued>>

MarkUpdateItem(t) ==
  /\ pc[t] = "updateItem"
  /\ ItemRowFree(t, loc[t].orderItem.orderitemid)
  /\ pend' = [pend EXCEPT ![t].lineFlag =
                (loc[t].orderItem.orderitemid :> loc[t].willBeComplete) @@ @]
  /\ IF Debits(loc[t].wasComplete, loc[t].willBeComplete)
          \/ Credits(loc[t].wasComplete, loc[t].willBeComplete)
       THEN LET rows == Recipe(loc[t].orderItem.menuitemid)
            IN /\ loc' = [loc EXCEPT ![t].rows = rows, ![t].idx = 1]
               /\ pc' = [pc EXCEPT ![t] =
                           IF Len(rows) = 0 THEN "count" ELSE "updateInventory"]
       ELSE /\ loc' = loc
            /\ pc' = [pc EXCEPT ![t] = "count"]
  /\ UNCHANGED <<inventory, orders, orderitems, advisory, resp, nMarks, prevMark, issued, inTx>>

\* the new count is computed from a count read without waiting for the row
\* lock (SELECT, then UPDATE ... SET ingredientcount = $1)
MarkUpdateInventory_StaleRead(t) ==
  /\ pc[t] = "updateInventory"
  /\ LET row == loc[t].rows[loc[t].idx]
         i == row.ingredientid
         n == TotalNeeded(row, loc[t].orderItem)
     IN pend' = [pend EXCEPT ![t].inv =
                   (i :> (IF Debits(loc[t].wasComplete, loc[t].willBeComplete)
                            THEN CountSeenBy(t, i) - n
                            ELSE CountSeenBy(t, i) + n)) @@ @]
  /\ IF loc[t].idx < Len(loc[t].rows)
       THEN /\ loc' = [loc EXCEPT ![t].idx = @ + 1]
            /\ pc' = pc
       ELSE /\ loc' = loc
            /\ pc' = [pc EXCEPT ![t] = "count"]
  /\ UNCHANGED <<inventory, orders, orderitems, advisory, resp, nMarks, prevMark, issued, inTx>>

\* the debit is refused when it would drive the count below zero
MarkUpdateInventory_FloorCheck(t) ==
  /\ pc[t] = "updateInventory"
  /\ LET row == loc[t].rows[loc[t].idx]
         i == row.ingredientid
         n == TotalNeeded(row, loc[t].orderItem)
     IN /\ InventoryRowFree(t, i)
        /\ IF Debits(loc[t].wasComplete, loc[t].willBeComplete) /\ CountSeenBy(t, i) < n
             THEN /\ EndTransaction(t)
                  /\ Respond(t, 400, "Insufficient inventory", i)
                  /\ loc' = [loc EXCEPT ![t] = NoLoc]
             ELSE /\ pend' = [pend EXCEPT ![t].inv =
                                (i :> (IF Debits(loc[t].wasComplete, loc[t].willBeComplete)
                                         THEN CountSeenBy(t, i) - n
                                         ELSE CountSeenBy(t, i) + n)) @@ @]
                  /\ IF loc[t].idx < Len(loc[t].rows)
                       THEN /\ loc' = [loc EXCEPT ![t].idx = @ + 1]
                            /\ pc' = pc
                       ELSE /\ loc' = loc
                            /\ pc' = [pc EXCEPT ![t] = "count"]
                  /\ UNCHANGED <<advisory, resp, inTx>>
  /\ UNCHANGED <<inventory, orders, orderitems, nMarks, prevMark, issued>>

MarkUpdateInventory(t) ==
  /\ pc[t] = "updateInventory"
  /\ LET row == loc[t].rows[loc[t].idx]
         i == row.ingredientid
         n == TotalNeeded(row, loc[t].orderItem)
     IN /\ InventoryRowFree(t, i)
        /\ pend' = [pend EXCEPT ![t].inv =
                      (i :> (IF Debits(loc[t].wasComplete, loc[t].willBeComplete)
                               THEN CountSeenBy(t, i) - n
                               ELSE CountSeenBy(t, i) + n)) @@ @]
  /\ IF loc[t].idx < Len(loc[t].rows)
       THEN /\ loc' = [loc EXCEPT ![t].idx = @ + 1]
            /\ pc' = pc
       ELSE /\ loc' = loc
            /\ pc' = [pc EXCEPT ![t] = "count"]
  /\ UNCHANGED <<inventory, orders, orderitems, advisory, resp, nMarks, prevMark, issued, inTx>>

MarkCount(t) ==
  /\ pc[t] = "count"
  /\ LET lines == { r \in ItemsSeenBy(t) : r.orderid = loc[t].orderId }
         total == Cardinality(lines)
         completed == Cardinality({ r \in lines : r.is_complete })
     IN loc' = [loc EXCEPT ![t].allComplete = NewOrderFlag(total, completed)]
  /\ pc' = [pc EXCEPT ![t] = "updateOrder"]
  /\ UNCHANGED <<inventory, orders, orderitems, pend, advisory, resp, nMarks, prevMark, issued, inTx>>

\* the order row is written only when the line's flag changed
MarkUpdateOrder_OnlyOnChange(t) ==
  /\ pc[t] = "updateOrder"
  /\ OrderRowFree(t, loc[t].orderId)
  /\ IF /\ \E o \in OrdersSeenBy(t) : o.orderid = loc[t].orderId
        /\ loc[t].wasComplete # loc[t].willBeComplete
       THEN pend' = [pend EXCEPT ![t].orderFlag =
                       (loc[t].orderId :> loc[t].allComplete) @@ @]
       ELSE pend' = pend
  /\ pc' = [pc EXCEPT ![t] = "commitMark"]
  /\ UNCHANGED <<inventory, orders, orderitems, loc, advisory, resp, nMarks, prevMark, issued, inTx>>

\* the UPDATE of orders has no WHERE clause: every order gets the flag
MarkUpdateOrder_EveryOrder(t) ==
  /\ pc[t] = "updateOrder"
  /\ pend' = [pend EXCEPT ![t].orderFlag =
                [id \in { o.orderid : o \in OrdersSeenBy(t) } |-> loc[t].allComplete]]
  /\ pc' = [pc EXCEPT ![t] = "commitMark"]
  /\ UNCHANGED <<inventory, orders, orderitems, loc, advisory, resp, nMarks, prevMark, issued, inTx>>

MarkUpdateOrder(t) ==
  /\ pc[t] = "updateOrder"
  /\ OrderRowFree(t, loc[t].orderId)
  /\ IF \E o \in OrdersSeenBy(t) : o.orderid = loc[t].orderId
       THEN pend' = [pend EXCEPT ![t].orderFlag =
                       (loc[t].orderId :> loc[t].allComplete) @@ @]
       ELSE pend' = pend
  /\ pc' = [pc EXCEPT ![t] = "commitMark"]
  /\ UNCHANGED <<inventory, orders, orderitems, loc, advisory, resp, nMarks, prevMark, issued, inTx>>

OrderFlagOf(id) ==
  \E o \in orders : o.orderid = id /\ o.is_complete

\* COMMIT of markOrderItemComplete, then res.json(...)
MarkCommitEffect(t) ==
  /\ pc[t] = "commitMark"
  /\ inventory' = InventoryAfterCommit(t)
  /\ orders' = OrdersAfterCommit(t)
  /\ orderitems' = ItemsAfterCommit(t)
  /\ EndTransaction(t)
  /\ Respond(t, 200, "", 0)
  /\ loc' = [loc EXCEPT ![t] = NoLoc]
  /\ UNCHANGED <<nMarks, issued>>

MarkCommit(t) ==
  /\ MarkCommitEffect(t)
  /\ UNCHANGED prevMark

\* the same step, remembering the call and the values it found (history only)
MarkCommitRecorded(t) ==
  /\ MarkCommitEffect(t)
  /\ prevMark' = [orderItemId |-> loc[t].orderItem.orderitemid,
                  willBeComplete |-> loc[t].willBeComplete,
                  wasComplete |-> loc[t].wasComplete,
                  inventory |-> inventory,
                  orderFlag |-> OrderFlagOf(loc[t].orderId)]

\* --------------------------------------------------------- catch (error)
\* the catch block sends COMMIT instead of ROLLBACK
StatementFails_Commits(t) ==
  /\ pc[t] # "idle"
  /\ inventory' = InventoryAfterCommit(t)
  /\ orders' = OrdersAfterCommit(t)
  /\ orderitems' = ItemsAfterCommit(t)
  /\ EndTransaction(t)
  /\ Respond(t, 500, pc[t], 0)
  /\ loc' = [loc EXCEPT ![t] = NoLoc]
  /\ UNCHANGED <<nMarks, prevMark, issued>>

\* A statement of an open transaction throws (connection loss, lock or
\* statement timeout, deadlock victim): ROLLBACK, 500 with error.message
\* (here the name of the statement that threw), release.
StatementFails(t) ==
  /\ pc[t] # "idle"
  /\ EndTransaction(t)
  /\ Respond(t, 500, pc[t], 0)
  /\ loc' = [loc EXCEPT ![t] = NoLoc]
  /\ UNCHANGED <<inventory, orders, orderitems, nMarks, prevMark, issued>>

\* --------------------------------------------------------- updateOrderStatus
\* req.body.is_complete of updateOrderStatus, as JSON text
StatusInputs == {"true", "false", "undefined"}

OrderIdInputs ==
  { o.orderid : o \in orders } \cup { NextId({ o.orderid : o \in orders }) }

\* One UPDATE sent with pool.query: it runs on an idle connection of the pool
\* and commits on its own, unless that connection was released with a
\* transaction open, in which case the UPDATE stays pending in it.
UpdateOrderStatus(t, id, is_complete) ==
  /\ Acquire(t)
  /\ IF is_complete = "undefined"
       THEN /\ Respond(t, 400, "is_complete is required", 0)
            /\ UNCHANGED <<orders, pend>>
       ELSE /\ OrderRowFree(t, id)
            /\ IF \E o \in OrdersSeenBy(t) : o.orderid = id
                 THEN /\ Respond(t, 200, "", 0)
                      /\ IF inTx[t]
                           THEN /\ pend' = [pend EXCEPT ![t].orderFlag =
                                               (id :> (is_complete = "true")) @@ @]
                                /\ orders' = orders
                           ELSE /\ orders' =
                                     { IF o.orderid = id
                                         THEN [o EXCEPT !.is_complete = (is_complete = "true")]
                                         ELSE o : o \in orders }
                                /\ pend' = pend
                 ELSE /\ Respond(t, 404, "Order not found", 0)
                      /\ UNCHANGED <<orders, pend>>
  /\ loc' = [loc EXCEPT ![t] = NoLoc]
  /\ UNCHANGED <<inventory, orderitems, pc, advisory, nMarks, prevMark, issued, inTx>>

\* ------------------------------------------------------------ specifications
NoneActive == \A u \in Conn : pc[u] = "idle"

CreateStep(t) ==
  \/ CreateValidate(t)
  \/ CreateLock1(t)
  \/ CreateReadOrderId(t)
  \/ CreateInsertOrder(t)
  \/ CreateLock2(t)
  \/ CreateReadItemId(t)
  \/ CreateInsertItem(t)
  \/ CreateCommit(t)

MarkStep(t) ==
  \/ MarkUpdateItem(t)
  \/ MarkUpdateInventory(t)
  \/ MarkCount(t)
  \/ MarkUpdateOrder(t)

\* requests are handled concurrently, one connection each
Next ==
  \E t \in Conn :
    \/ \E body \in CreateBodies : BeginCreate(t, body)
    \/ \E id \in OrderItemIdInputs, isComplete \in IsCompleteInputs :
         BeginMark(t, id, isComplete)
    \/ CreateStep(t)
    \/ MarkStep(t)
    \/ MarkCommit(t)
    \/ StatementFails(t)

Spec == Init /\ [][Next]_vars

\* requests never overlap: a request starts only when no transaction is open
SeqNext ==
  \E t \in Conn :
    \/ \E body \in CreateBodies : NoneActive /\ BeginCreate(t, body)
    \/ \E id \in OrderItemIdInputs, isComplete \in IsCompleteInputs :
         NoneActive /\ BeginMark(t, id, isComplete)
    \/ CreateStep(t)
    \/ MarkStep(t)
    \/ MarkCommitRecorded(t)
    \/ StatementFails(t)

SpecSeq == Init /\ [][SeqNext]_vars

\* requests one at a time, the menu item ids taken from whatever the client
\* sends
MenuNext ==
  \E t \in Conn :
    \/ \E body \in CreateBodies \cup MenuBodies : NoneActive /\ BeginCreate(t, body)
    \/ \E id \in OrderItemIdInputs, isComplete \in IsCompleteInputs :
         NoneActive /\ BeginMark(t, id, isComplete)
    \/ CreateStep(t)
    \/ MarkStep(t)
    \/ MarkCommitRecorded(t)
    \/ StatementFails(t)

SpecMenu == Init /\ [][MenuNext]_vars

\* the statements of the handler running on connection t
HandlerStep(t) == CreateStep(t) \/ MarkStep(t) \/ MarkCommit(t)

\* concurrent requests none of whose statements fails: a handler that has
\* started keeps executing (its next statement is sent as soon as the
\* previous one returns), and a statement waiting for a lock returns once the
\* lock is free
FairNext ==
  \E t \in Conn :
    \/ \E body \in CreateBodies : BeginCreate(t, body)
    \/ \E id \in OrderItemIdInputs, isComplete \in IsCompleteInputs :
         nMarks < MaxFairMarks /\ BeginMark(t, id, isComplete)
    \/ CreateStep(t)
    \/ MarkStep(t)
    \/ MarkCommit(t)

SpecFair == Init /\ [][FairNext]_vars /\ \A t \in Conn : WF_vars(HandlerStep(t))

\* every handler the controller exports, updateOrderStatus included, one
\* request at a time
CtlNext ==
  \E t \in Conn :
    \/ \E body \in CreateBodies : NoneActive /\ BeginCreate(t, body)
    \/ \E id \in OrderItemIdInputs, isComplete \in IsCompleteInputs :
         NoneActive /\ BeginMark(t, id, isComplete)
    \/ \E id \in OrderIdInputs, is_complete \in StatusInputs :
         NoneActive /\ UpdateOrderStatus(t, id, is_complete)
    \/ CreateStep(t)
    \/ MarkStep(t)
    \/ MarkCommitRecorded(t)
    \/ StatementFails(t)

SpecCtl == Init /\ [][CtlNext]_vars

\* ------------------------------------------------------------- properties
FlagOfOrder(os, id) == \E o \in os : o.orderid = id /\ o.is_complete
FlagOfLine(items, id) == \E r \in items : r.orderitemid = id /\ r.is_complete
AllLinesComplete(items, id) == \A r \in items : r.orderid = id => r.is_complete

\* the step in which connection t commits its handler and answers 200 / 201
MarkCommitted(t) == pc[t] = "commitMark" /\ resp'[t].status = 200
CreateCommitted(t) == pc[t] = "commitCreate" /\ resp'[t].status = 201

\* C1: without overlapping requests, for every ingredient the initial count
\* minus the current count equals the sum of recipeQty x lineQuantity over
\* the order lines whose is_complete flag is currently true.
C1_InventoryMatchesCompleted ==
  \A i \in Ingredients :
    InitialCount[i] - inventory[i] = SumNeed({ r \in orderitems : r.is_complete }, i)

C1_Witness ==
  /\ \E r \in orderitems : r.is_complete /\ r.menuitemid = 2
  /\ \E r \in orderitems : ~r.is_complete
  /\ inventory[1] = 40 /\ inventory[2] = 20

\* C2: every committed markOrderItemComplete changes each ingredient count by
\* exactly the delta of the flag transition it actually made on the stored
\* line: -need on incomplete->complete, +need on complete->incomplete, nothing
\* when the stored flag did not change; also when the calls overlap.
C2_DeltaOncePerTransition ==
  [][\A t \in Conn :
       MarkCommitted(t) =>
         LET line == loc[t].orderItem
             before == FlagOfLine(orderitems, line.orderitemid)
             after == FlagOfLine(orderitems', line.orderitemid)
         IN \A i \in Ingredients :
              inventory'[i] - inventory[i] =
                IF ~before /\ after THEN 0 - Need(line, i)
                ELSE IF before /\ ~after THEN Need(line, i)
                ELSE 0]_vars

\* C3: after every committed markOrderItemComplete that ran without overlap,
\* the parent order's is_complete equals the AND of its lines' flags.
C3_OrderFlagIsAndOfLines ==
  [][\A t \in Conn :
       MarkCommitted(t) =>
         (FlagOfOrder(orders', loc[t].orderId)
            <=> AllLinesComplete(orderitems', loc[t].orderId))]_vars

C3_Witness ==
  \E o \in orders :
    /\ o.is_complete
    /\ Cardinality({ r \in orderitems : r.orderid = o.orderid }) = 2
    /\ \A r \in orderitems : r.orderid = o.orderid => r.is_complete
    /\ prevMark.willBeComplete /\ ~prevMark.wasComplete /\ ~prevMark.orderFlag

\* C4: when markOrderItemComplete transactions complete different lines of
\* one order concurrently, the order is marked complete once all its lines
\* are: a commit that leaves every line of the order complete leaves the
\* order's flag true.
C4_OrderCompleteWhenAllLinesComplete ==
  [][\A t \in Conn :
       (MarkCommitted(t) /\ loc[t].willBeComplete
          /\ AllLinesComplete(orderitems', loc[t].orderId))
         => FlagOfOrder(orders', loc[t].orderId)]_vars

\* C5: every ingredient count is >= 0 in every committed state.
C5_CountsNonNegative == \A i \in Ingredients : inventory[i] >= 0

\* C6: an order is never created when, for some ingredient, the requirement
\* summed over all requested lines exceeds the available count.
C6_RejectsWhenTotalExceedsStock ==
  [][\A t \in Conn :
       CreateCommitted(t) =>
         \A i \in Ingredients : TotalRequired(loc[t].orderItems, i) <= inventory[i]]_vars

\* C7: when createOrder answers "Insufficient inventory", whichever item
\* failed, its transaction has ended with nothing written or pending: no
\* order row, no order-line row, no ingredient count changed.
C7_RejectionPersistsNothing ==
  [][\A t \in Conn :
       (resp'[t].error = "Insufficient inventory" /\ resp'[t] # resp[t]) =>
         /\ pc'[t] = "idle"
         /\ pend[t] = NoPend /\ pend'[t] = NoPend
         /\ advisory'[t] = {}
         /\ orders' = orders /\ orderitems' = orderitems /\ inventory' = inventory]_vars

C7_Witness ==
  \E t \in Conn :
    /\ resp[t].error = "Insufficient inventory"
    /\ loc[t].idx = 2 /\ Len(loc[t].orderItems) = 2
    /\ orders # {}
    /\ \A r \in orderitems : r.orderid \in { o.orderid : o \in orders }

C9_RepeatedCallNoDelta ==
  [][\A t \in Conn :
       (MarkCommitted(t)
          /\ prevMark.orderItemId = loc[t].orderItem.orderitemid
          /\ prevMark.willBeComplete = loc[t].willBeComplete)
         => /\ loc[t].wasComplete = loc[t].willBeComplete
            /\ inventory' = inventory]_vars

C9_Witness ==
  /\ nMarks = 2
  /\ prevMark.orderItemId # 0
  /\ prevMark.wasComplete /\ prevMark.willBeComplete
  /\ inventory[1] < InitialCount[1]

\* C10: marking an incomplete line complete and then incomplete returns every
\* ingredient count, the line flag and the parent order flag to the values
\* they had before the first call.
C10_CompleteThenIncompleteRestores ==
  [][\A t \in Conn :
       (MarkCommitted(t)
          /\ prevMark.orderItemId = loc[t].orderItem.orderitemid
          /\ prevMark.willBeComplete /\ ~prevMark.wasComplete
          /\ ~loc[t].willBeComplete)
         => /\ inventory' = prevMark.inventory
            /\ FlagOfLine(orderitems', loc[t].orderItem.orderitemid) = prevMark.wasComplete
            /\ FlagOfOrder(orders', loc[t].orderId) = prevMark.orderFlag]_vars

C10_Witness ==
  /\ nMarks = 2
  /\ prevMark.orderItemId # 0
  /\ prevMark.wasComplete /\ ~prevMark.willBeComplete
  /\ \A i \in Ingredients : inventory[i] = InitialCount[i]
  /\ \A r \in orderitems : ~r.is_complete

\* the createOrder handlers that hold an order id read from MAX(orderid) + 1
HoldsOrderId(t) ==
  /\ loc[t].kind = "create"
  /\ pc[t] \in {"insertOrder", "lock2", "readItemId", "insertItem", "commitCreate"}

\* C11: two concurrent createOrder transactions never obtain the same order
\* id, and none obtains the id of a committed order: the id a createOrder
\* holds differs from every committed order id and from the id held by any
\* other createOrder in progress.
C11_OrderIdsDistinct ==
  \A t \in Conn :
    HoldsOrderId(t) =>
      /\ loc[t].orderId \notin { o.orderid : o \in orders }
      /\ \A u \in Conn \ {t} : HoldsOrderId(u) => loc[u].orderId # loc[t].orderId

\* two overlapping creations against the empty table: the first committed
\* order 1 while the second waited for lock 1 and then obtained 2
C11_Witness ==
  /\ nMarks = 0
  /\ { o.orderid : o \in orders } = {1}
  /\ HoldsOrderId(2) /\ loc[2].orderId = 2
  /\ pend[2].orders = { [orderid |-> 2, is_complete |-> FALSE] }

\* the createOrder handlers that hold an order-line id not yet inserted
HoldsItemId(t) == loc[t].kind = "create" /\ pc[t] = "insertItem"

\* C12: every order-line id inserted by createOrder is unique among all order
\* lines: the id a createOrder is about to insert is the id of no committed
\* line, of no line pending in any transaction (its own order's earlier lines
\* included) and of no line another createOrder is about to insert; and no
\* two stored rows share an id.
C12_OrderItemIdsDistinct ==
  /\ \A t \in Conn :
       HoldsItemId(t) =>
         /\ loc[t].itemId \notin { r.orderitemid : r \in orderitems }
         /\ \A u \in Conn : loc[t].itemId \notin { r.orderitemid : r \in pend[u].items }
         /\ \A u \in Conn \ {t} : HoldsItemId(u) => loc[u].itemId # loc[t].itemId
  /\ \A r1, r2 \in orderitems : r1.orderitemid = r2.orderitemid => r1 = r2

\* overlapping creations: order 1 with line 1 is committed, the second
\* transaction has inserted line 2 and is about to insert line 3
C12_Witness ==
  /\ nMarks = 0
  /\ { r.orderitemid : r \in orderitems } = {1}
  /\ { r.orderitemid : r \in pend[2].items } = {2}
  /\ HoldsItemId(2) /\ loc[2].itemId = 3 /\ loc[2].idx = 2

\* C13: each order id a createOrder reads from MAX(orderid) + 1 is strictly
\* greater than every order id read earlier, the ids read by transactions
\* that later rolled back included.
C13_OrderIdAboveAllIssued ==
  [][\A t \in Conn :
       (pc[t] = "readOrderId" /\ pc'[t] = "insertOrder") => loc'[t].orderId > issued]_vars

\* the createOrder handlers that are reading or inserting order ids / line ids
AllocatesOrderId(t) ==
  loc[t].kind = "create" /\ pc[t] \in {"readOrderId", "insertOrder"}
AllocatesItemIds(t) ==
  loc[t].kind = "create" /\ pc[t] \in {"readItemId", "insertItem"}

\* C14: order-id allocation and order-line-id allocation never block each
\* other: a createOrder waiting for the order-id lock can take it while
\* another transaction is only allocating / inserting order-line ids, and a
\* createOrder waiting for the line-id lock can take it while another
\* transaction is allocating an order id.
C14_AllocationsIndependent ==
  \A t \in Conn : \A u \in Conn \ {t} :
    /\ (pc[t] = "lock1" /\ AllocatesItemIds(u)) => AdvisoryFree(t, 1)
    /\ (pc[t] = "lock2" /\ AllocatesOrderId(u)) => AdvisoryFree(t, 2)

\* C16: a createOrder whose orderItems is missing, not an array or empty
\* answers 400 'Order must contain at least one item' and leaves the store
\* as it found it: no order, order line or ingredient count is written or
\* left pending, no advisory lock is taken, and the handler is over.
C16_EmptyOrderTouchesNothing ==
  [][\A t \in Conn : \A body \in EmptyBodies :
       (Acquire(t) /\ BeginCreate(t, body)) =>
         /\ resp'[t].status = 400
         /\ resp'[t].error = "Order must contain at least one item"
         /\ pc'[t] = "idle"
         /\ orders' = orders /\ orderitems' = orderitems /\ inventory' = inventory
         /\ pend' = pend /\ pend'[t] = NoPend
         /\ advisory' = advisory /\ advisory'[t] = {}]_vars

C16_Witness ==
  \E t \in Conn :
    /\ pc[t] = "idle" /\ inTx[t]
    /\ resp[t].status = 400
    /\ resp[t].error = "Order must contain at least one item"
    /\ orders # {} /\ orderitems # {}
    /\ pend[t] = NoPend /\ advisory[t] = {}

\* C15: every error outcome of createOrder (400 for empty / missing
\* orderItems, 400 for insufficient inventory, 500 for a failed statement)
\* leaves its connection released with the transaction rolled back: no
\* connection is back in the pool after an error answer with its transaction
\* still open.
C15_ErrorsRolledBackBeforeRelease ==
  \A t \in Conn :
    (pc[t] = "idle" /\ resp[t].status \in {400, 500}) => ~inTx[t]

\* C17: without overlapping requests, when a statement of
\* markOrderItemComplete fails after the line flag was updated (a debit or
\* credit, the recount, the order update or the commit), the transaction is
\* rolled back and every line flag, every order flag and every ingredient
\* count keeps the value it had before the call.
C17_FailedMarkRestoresAll ==
  [][\A t \in Conn :
       (loc[t].kind = "mark" /\ pend[t].lineFlag # EmptyFn /\ resp'[t].status = 500) =>
         /\ pc'[t] = "idle" /\ ~inTx'[t]
         /\ pend'[t] = NoPend
         /\ orders' = orders /\ orderitems' = orderitems /\ inventory' = inventory]_vars

C17_Witness ==
  \E t \in Conn :
    /\ pc[t] = "idle" /\ ~inTx[t]
    /\ resp[t].status = 500
    /\ resp[t].error \in {"updateInventory", "count", "updateOrder", "commitMark"}
    /\ orderitems # {}
    /\ \A r \in orderitems : ~r.is_complete
    /\ \A o \in orders : ~o.is_complete
    /\ \A i \in Ingredients : inventory[i] = InitialCount[i]

\* C18: markOrderItemComplete for an order-line id that does not exist
\* answers 404 'Order item not found' with its transaction rolled back, and
\* changes no line flag, no order flag and no ingredient count.
C18_UnknownLineIs404 ==
  [][\A t \in Conn : \A id \in OrderItemIdInputs : \A isComplete \in IsCompleteInputs :
       (nMarks' # nMarks /\ id \notin { r.orderitemid : r \in orderitems }
          /\ BeginMark(t, id, isComplete)) =>
         /\ resp'[t].status = 404
         /\ resp'[t].error = "Order item not found"
         /\ pc'[t] = "idle" /\ ~inTx'[t]
         /\ pend'[t] = NoPend /\ advisory'[t] = {}
         /\ orders' = orders /\ orderitems' = orderitems /\ inventory' = inventory]_vars

C18_Witness ==
  \E t \in Conn :
    /\ pc[t] = "idle" /\ ~inTx[t]
    /\ resp[t].status = 404
    /\ \E r \in orderitems : r.is_complete
    /\ \E r \in orderitems : ~r.is_complete
    /\ inventory[1] < InitialCount[1]

\* C19: after creation an order's is_complete flag is changed only by a
\* committing markOrderItemComplete on one of its lines; no other operation
\* of the order controller changes it.
C19_OrderFlagOnlyByMark ==
  [][\A o \in orders :
       FlagOfOrder(orders', o.orderid) # o.is_complete =>
         \E t \in Conn : MarkCommitted(t) /\ loc[t].orderId = o.orderid]_vars

\* the committed lines of order id
LinesOf(items, id) == { r \in items : r.orderid = id }

\* C20: a committing createOrder persists its order row and one line per
\* requested item (at least one) in the same step, the order and every line
\* with is_complete = false; and in every committed state each order has a
\* line and each line has its order.
C20_OrderAndLinesTogether ==
  [][/\ \A o \in orders' : LinesOf(orderitems', o.orderid) # {}
     /\ \A r \in orderitems' : \E o \in orders' : o.orderid = r.orderid
     /\ \A t \in Conn :
          CreateCommitted(t) =>
            LET id == loc[t].orderId
                requested == loc[t].orderItems
                lines == LinesOf(orderitems', id)
            IN /\ [orderid |-> id, is_complete |-> FALSE] \in orders' \ orders
               /\ LinesOf(orderitems, id) = {}
               /\ Len(requested) >= 1
               /\ Cardinality(lines) = Len(requested)
               /\ \A r \in lines : ~r.is_complete
               /\ \A k \in 1..Len(requested) :
                    \E r \in lines : /\ r.menuitemid = requested[k].menuitemid
                                     /\ r.quantity = requested[k].quantity]_vars

\* two orders created by overlapping requests, the second with two lines
C20_Witness ==
  /\ nMarks = 0
  /\ resp[2].status = 201
  /\ Cardinality(orders) = 2
  /\ \E o \in orders : Cardinality(LinesOf(orderitems, o.orderid)) = 2
  /\ \A r \in orderitems : ~r.is_complete

\* C21: without overlapping requests, a committed markOrderItemComplete whose
\* body omits isComplete leaves the line complete, and it leaves the line
\* incomplete exactly when the body carries the literal false.
C21_OmittedMeansComplete ==
  [][\A t \in Conn :
       MarkCommitted(t) =>
         LET after == FlagOfLine(orderitems', loc[t].orderItem.orderitemid)
         IN /\ loc[t].isComplete = "undefined" => after
            /\ ~after <=> loc[t].isComplete = "false"]_vars

\* a request without isComplete on an incomplete line has set the line
\* complete and is about to commit
C21_Witness ==
  \E t \in Conn :
    /\ pc[t] = "commitMark"
    /\ loc[t].isComplete = "undefined"
    /\ ~loc[t].wasComplete
    /\ loc[t].orderItem.orderitemid \in DOMAIN pend[t].lineFlag
    /\ pend[t].lineFlag[loc[t].orderItem.orderitemid]
    /\ pend[t].inv # EmptyFn

\* the statement connection t is about to send waits for a lock another
\* transaction holds
WaitsForLock(t) ==
  \/ pc[t] = "lock1" /\ ~AdvisoryFree(t, 1)
  \/ pc[t] = "lock2" /\ ~AdvisoryFree(t, 2)
  \/ pc[t] = "updateItem" /\ ~ItemRowFree(t, loc[t].orderItem.orderitemid)
  \/ pc[t] = "updateInventory"
       /\ ~InventoryRowFree(t, loc[t].rows[loc[t].idx].ingredientid)
  \/ pc[t] = "updateOrder" /\ ~OrderRowFree(t, loc[t].orderId)

C23_DebitWithoutFloor ==
  [][\A t \in Conn :
       /\ (loc[t].kind = "mark" /\ pc[t] # "idle" /\ pc'[t] = "idle") =>
            \/ resp'[t].status = 200
            \/ resp'[t].status = 500 /\ resp'[t].error = pc[t]
       /\ (MarkCommitted(t) /\ loc[t].willBeComplete /\ ~loc[t].wasComplete) =>
            \A i \in Ingredients :
              inventory'[i] = inventory[i] - Need(loc[t].orderItem, i)]_vars

\* a completion has committed a debit that left Boba below zero
C23_Witness ==
  /\ inventory[1] < 0
  /\ prevMark.willBeComplete /\ ~prevMark.wasComplete
  /\ prevMark.inventory[1] >= 0
  /\ \E t \in Conn : pc[t] = "idle" /\ resp[t].status = 200

\* C24: in every committed state every order line's orderid is the id of an
\* order row and its menuitemid is the id of a menu item.
C24_LinesReferToOrderAndMenuItem ==
  \A r \in orderitems :
    /\ \E o \in orders : o.orderid = r.orderid
    /\ r.menuitemid \in MenuItemIds

\* C26: the availability check of one requested item ends the request with
\* 400 'Insufficient inventory' exactly when some recipe row of the item
\* needs strictly more than the available count: an exactly sufficient count
\* passes, and so does an item without recipe rows.
C26_RejectsOnlyWhenStrictlyShort ==
  [][\A t \in Conn :
       (pc[t] = "validate" /\ resp'[t].status # 500
          /\ (pc'[t] # pc[t] \/ loc'[t] # loc[t])) =>
         LET item == loc[t].orderItems[loc[t].idx]
             rows == Recipe(item.menuitemid)
             short == \E k \in 1..Len(rows) :
                        rows[k].ingredientqty * item.quantity
                          > inventory[rows[k].ingredientid]
         IN (pc'[t] = "idle" /\ resp'[t].status = 400
               /\ resp'[t].error = "Insufficient inventory") <=> short]_vars

\* an order of item 1 (needs exactly the 50 Boba left) and of an item without
\* recipe rows has passed the check
C26_Witness ==
  \E t \in Conn :
    /\ pc[t] = "lock1"
    /\ inventory[1] = 50
    /\ Len(loc[t].orderItems) = 2
    /\ loc[t].orderItems[1].menuitemid = 1
    /\ Need(loc[t].orderItems[1], 1) = 50
    /\ Recipe(loc[t].orderItems[2].menuitemid) = << >>

C27_NoLostDebit ==
  [][\A t \in Conn :
       (MarkCommitted(t) /\ loc[t].willBeComplete /\ ~loc[t].wasComplete
          /\ ~FlagOfLine(orderitems, loc[t].orderItem.orderitemid)) =>
         \A i \in Ingredients :
           inventory'[i] = inventory[i] - Need(loc[t].orderItem, i)]_vars

\* two completions of different lines that share Boba overlap: one has
\* debited and is about to commit, the other waits for the Boba row
C27_Witness ==
  \E t \in Conn : \E u \in Conn \ {t} :
    /\ pc[t] = "commitMark" /\ pc[u] = "updateInventory"
    /\ loc[t].orderItem.orderitemid # loc[u].orderItem.orderitemid
    /\ \A x \in {t, u} : loc[x].willBeComplete /\ ~loc[x].wasComplete
    /\ 1 \in DOMAIN pend[t].inv
    /\ loc[u].rows[loc[u].idx].ingredientid = 1

\* the advisory key a createOrder handler is blocked on, 0 when it is not
BlockedOnKey(t) ==
  IF pc[t] = "lock1" /\ ~AdvisoryFree(t, 1) THEN 1
  ELSE IF pc[t] = "lock2" /\ ~AdvisoryFree(t, 2) THEN 2
  ELSE 0

\* C28: concurrent createOrder transactions cannot deadlock on the advisory
\* locks: a transaction that holds lock 2 also holds lock 1 (lock 1 is
\* always taken first), and the holder of a lock another createOrder is
\* blocked on is never itself blocked on an advisory lock.
C28_LockOrderNoDeadlock ==
  /\ \A t \in Conn : 2 \in advisory[t] => 1 \in advisory[t]
  /\ \A t \in Conn : \A u \in Conn \ {t} :
       (BlockedOnKey(t) # 0 /\ BlockedOnKey(t) \in advisory[u]) =>
         BlockedOnKey(u) = 0

\* one createOrder holds both locks while the other is blocked on lock 1
C28_Witness ==
  \E t \in Conn : \E u \in Conn \ {t} :
    /\ advisory[t] = {1, 2} /\ pc[t] \in {"readItemId", "insertItem", "commitCreate"}
    /\ BlockedOnKey(u) = 1

\* the rows of a table other than the one with the given id
OtherRows(rows, id, key) == { r \in rows : r[key] # id }

\* C29: a markOrderItemComplete call on line L changes only L's completion
\* flag, the completion flag of L's order and the counts of the ingredients
\* in the recipe of L's menu item: every other line, order and ingredient
\* count, and the other columns of L and of its order, are as before.
C29_MarkChangesOnlyItsLine ==
  [][\A t \in Conn :
       /\ MarkCommitted(t) =>
            LET L == loc[t].orderItem.orderitemid
                O == loc[t].orderId
            IN /\ OtherRows(orderitems', L, "orderitemid") = OtherRows(orderitems, L, "orderitemid")
               /\ OtherRows(orders', O, "orderid") = OtherRows(orders, O, "orderid")
               /\ { [r EXCEPT !.is_complete = FALSE] : r \in orderitems' }
                    = { [r EXCEPT !.is_complete = FALSE] : r \in orderitems }
               /\ { [o EXCEPT !.is_complete = FALSE] : o \in orders' }
                    = { [o EXCEPT !.is_complete = FALSE] : o \in orders }
               /\ \A i \in Ingredients :
                    Need(loc[t].orderItem, i) = 0 => inventory'[i] = inventory[i]
       /\ ((loc[t].kind = "mark" /\ pc'[t] # pc[t] /\ ~MarkCommitted(t))
             \/ nMarks' # nMarks) =>
            UNCHANGED <<inventory, orders, orderitems>>]_vars

\* one call has completed a line of menu item 1 (Boba only): Boba is
\* debited, Milk is not, and a second order with an open line is untouched
C29_Witness ==
  /\ nMarks = 1 /\ prevMark.orderItemId # 0
  /\ \E r \in orderitems :
       /\ r.orderitemid = prevMark.orderItemId
       /\ r.is_complete /\ r.menuitemid = 1
       /\ \E q \in orderitems : q.orderid # r.orderid /\ ~q.is_complete
       /\ \E o \in orders : o.orderid # r.orderid /\ ~o.is_complete
       /\ OrderFlagOf(r.orderid)
  /\ inventory[1] = InitialCount[1] - 50
  /\ inventory[2] = InitialCount[2]

\* a step of the createOrder handler on connection t: its first step, one of
\* its statements, its commit, or its failure
CreateHandlerStep(t) ==
  \/ loc[t].kind = "create" /\ pc'[t] # pc[t]
  \/ pc[t] = "idle" /\ pc'[t] = "validate"
  \/ /\ pc[t] = "idle" /\ pc'[t] = "idle"
     /\ resp'[t].error = "Order must contain at least one item"
     /\ (resp'[t] # resp[t] \/ inTx'[t] # inTx[t])

\* C30: createOrder, whether it commits or fails, never modifies or removes
\* a previously committed order or order line: every committed row is still
\* there, unchanged, after each of its steps (it only adds rows).
C30_CreateOnlyAddsRows ==
  [][\A t \in Conn :
       CreateHandlerStep(t) =>
         /\ orders \subseteq orders'
         /\ orderitems \subseteq orderitems'
         /\ (~CreateCommitted(t) => orders' = orders /\ orderitems' = orderitems)]_vars

\* a second order has been committed (201) after the first order had been
\* completed, and the first order and its line are still as they were
C30_Witness ==
  /\ Cardinality(orders) = 2
  /\ \E t \in Conn : resp[t].status = 201 /\ pc[t] = "idle"
  /\ \E o \in orders :
       /\ o.orderid = 1 /\ o.is_complete
       /\ \E r \in orderitems : r.orderid = 1 /\ r.is_complete
  /\ \E o \in orders : o.orderid = 2 /\ ~o.is_complete
  /\ \E r \in orderitems : r.orderid = 2

====
